---- MODULE Spec2Model ----
(***************************************************************************)
(* A model of pygameui's style resolution (theme.py) and of its event      *)
(* dispatch loop (__init__.py, scene.py).                                  *)
(***************************************************************************)
EXTENDS Integers, Sequences, FiniteSets, TLC

(***************************************************************************)
(* Bounds of the model.                                                    *)
(***************************************************************************)
\* the number of (class, state, key) entries the theme under construction holds
MaxEntries == 3
\* the number of input events queued for one frame
MaxQueue == 2

None == "None"

(***************************************************************************)
(* theme.py: the style table and its resolution.                           *)
(***************************************************************************)

\* Class objects, identified by their __name__.  Button < Control < View is
\* the chain Leaf < Mid < Base.
ViewClasses == {"View", "Control", "Button"}

\* klass.__bases__ : the tuple of declared parents.
Bases(klass) ==
    CASE klass = "Button"  -> <<"Control">>
      [] klass = "Control" -> <<"View">>
      [] klass = "View"    -> <<"object">>
      [] OTHER             -> <<>>

StateNames == {"normal", "focused", "selected"}
StyleKeys == {"background_color", "border_widths"}
StyleValues == {"gray", "dark_gray"}

VARIABLES
    _styles,       \* Theme._styles: class_name -> state -> key -> value
    ret,           \* the style query made of the theme and what it returned
    named_themes,  \* the style tables of the Theme objects bound to the
                   \* module names light_theme and dark_theme
    call,          \* the last call of a Theme method: arguments, table before
                   \* it, result, and the result of the same call made before
    stack,         \* view.stack
    view_current,  \* view.current
    theme_current, \* theme.current
    current_view,  \* the name current_view of theme.py
    focus_view,    \* focus.view
    has_focus,     \* the views that were told focused() and not blurred() since
    down_in_view,  \* run()'s down_in_view
    pc,            \* where the application is: import, setup, tick, events,
                   \* exited, crashed
    raised,        \* the exception that ended run(), if any
    pointer,       \* where the pointer is: pygame.mouse.get_pos()
    queue,         \* the events pygame holds for the next pygame.event.get()
    batch,         \* the events of this frame not handled yet
    ev,            \* the event or call handled last
    log,           \* the calls made on views while it was handled
    pre            \* focus.view, down_in_view and view.current before it

themeVars == <<_styles, ret, call, named_themes>>

appVars == <<stack, view_current, theme_current, current_view, focus_view, has_focus,
             down_in_view, pc, raised, pointer, queue, batch, ev, log,
             pre>>

EmptyDict == <<>>

\* dict.setdefault(k, v), as the dict afterwards
SetDefault(d, k, v) == IF k \in DOMAIN d THEN d ELSE (k :> v) @@ d

\* d[k] = v, as the dict afterwards
SetItem(d, k, v) == (k :> v) @@ d

\* dict(chain(a.items(), b.items())): the later items overwrite the earlier
ChainDict(a, b) ==
    [k \in (DOMAIN a) \cup (DOMAIN b) |-> IF k \in DOMAIN b THEN b[k] ELSE a[k]]

\* Theme.set
ThemeSetResult(styles, class_name, state, key, value) ==
    LET s1 == SetDefault(styles, class_name, EmptyDict)
        s2 == SetItem(s1, class_name, SetDefault(s1[class_name], state, EmptyDict))
    IN  SetItem(s2, class_name,
                SetItem(s2[class_name], state,
                        SetItem(s2[class_name][state], key, value)))

\* A miss of the state that falls back on the class's 'selected' cell
CellOrSelected(styles, class_name, state) ==
    IF class_name \in DOMAIN styles /\ state \in DOMAIN styles[class_name]
    THEN styles[class_name][state]
    ELSE IF class_name \in DOMAIN styles /\ "selected" \in DOMAIN styles[class_name]
    THEN styles[class_name]["selected"]
    ELSE EmptyDict

\* try: self._styles[class_name][state]  except KeyError: {}
CellOrEmpty(styles, class_name, state) ==
    IF class_name \in DOMAIN styles /\ state \in DOMAIN styles[class_name]
    THEN styles[class_name][state]
    ELSE EmptyDict

\* A walk that stops at the root class and resolves what it has collected
RECURSIVE ClassListStopAtRoot(_, _)
ClassListStopAtRoot(klass, base_name) ==
    IF klass = base_name \/ Bases(klass) = <<>>
    THEN [exc |-> None, classes |-> <<klass>>]
    ELSE LET rest == ClassListStopAtRoot(Bases(klass)[1], base_name)
         IN  [exc |-> None, classes |-> <<klass>> \o rest.classes]

\* The while loop building `classes`: the class, then first parents up to the
\* class named base_name.  A class without parents raises IndexError.
RECURSIVE ClassList(_, _)
ClassList(klass, base_name) ==
    IF klass = base_name THEN [exc |-> None, classes |-> <<klass>>]
    ELSE IF Bases(klass) = <<>> THEN [exc |-> "IndexError", classes |-> <<>>]
    ELSE LET rest == ClassList(Bases(klass)[1], base_name)
         IN  [exc |-> rest.exc,
              classes |-> IF rest.exc = None THEN <<klass>> \o rest.classes ELSE <<>>]

\* mutant: the 'normal' cell is chained after the state's cell and overwrites it
StateStylesNormalWins(styles, class_name, state) ==
    IF state # "normal"
    THEN ChainDict(CellOrEmpty(styles, class_name, state),
                   CellOrEmpty(styles, class_name, "normal"))
    ELSE CellOrEmpty(styles, class_name, state)

\* The per-class map: the state's cell, over the 'normal' cell when the state
\* is not 'normal'.
StateStyles(styles, class_name, state) ==
    IF state # "normal"
    THEN ChainDict(CellOrEmpty(styles, class_name, "normal"),
                   CellOrEmpty(styles, class_name, state))
    ELSE CellOrEmpty(styles, class_name, state)

\* mutant: the accumulated style is chained first, so the ancestor overwrites
MergeClassAncestorWins(styles, class_name, state, style) ==
    ChainDict(style, StateStyles(styles, class_name, state))

\* One pass of `for klass in classes`: style = dict(chain(state_styles, style))
MergeClass(styles, class_name, state, style) ==
    ChainDict(StateStyles(styles, class_name, state), style)

RECURSIVE StyleLoop(_, _, _, _, _)
StyleLoop(styles, classes, i, state, style) ==
    IF i > Len(classes) THEN style
    ELSE StyleLoop(styles, classes, i + 1, state,
                   MergeClass(styles, classes[i], state, style))

\* The cells of one state over the whole chain, derived class first.
RECURSIVE CellLoop(_, _, _, _, _)
CellLoop(styles, classes, i, state, style) ==
    IF i > Len(classes) THEN style
    ELSE CellLoop(styles, classes, i + 1, state,
                  ChainDict(CellOrEmpty(styles, classes[i], state), style))

\* mutant: the 'normal' cells of the whole chain are laid under the state's
\* cells of the whole chain, instead of class by class
get_dict_for_class_StateFirst(styles, class_name, state, base_name) ==
    LET cl == ClassList(class_name, base_name)
        st == IF state = None THEN "normal" ELSE state
    IN  IF cl.exc # None THEN [exc |-> cl.exc, style |-> EmptyDict]
        ELSE [exc |-> None,
              style |-> ChainDict(CellLoop(styles, cl.classes, 1, "normal", EmptyDict),
                                  CellLoop(styles, cl.classes, 1, st, EmptyDict))]

\* Theme.get_dict_for_class
get_dict_for_class(styles, class_name, state, base_name) ==
    LET cl == ClassList(class_name, base_name)
        st == IF state = None THEN "normal" ELSE state
    IN  IF cl.exc # None THEN [exc |-> cl.exc, style |-> EmptyDict]
        ELSE [exc |-> None, style |-> StyleLoop(styles, cl.classes, 1, st, EmptyDict)]

NoQuery == [class_name |-> None, state |-> None, base_name |-> None,
            exc |-> None, style |-> EmptyDict]

\* The (class, state, key) triples the table holds a value for.
Entries(styles) ==
    {e \in (DOMAIN styles) \X StateNames \X StyleKeys :
        /\ e[2] \in DOMAIN styles[e[1]]
        /\ e[3] \in DOMAIN styles[e[1]][e[2]]}

\* Theme.get_dict: the class and the state are taken from the view instance;
\* the state argument is not used
get_dict(styles, obj, state, base_name) ==
    get_dict_for_class(styles, obj.class, obj.state, base_name)

\* Theme.get_value: styles[attr] of the resolved map, default_value on KeyError
get_value(styles, class_name, attr, default_value, state, base_name) ==
    LET r == get_dict_for_class(styles, class_name, state, base_name)
    IN  IF r.exc # None THEN [exc |-> r.exc, style |-> EmptyDict, value |-> None]
        ELSE [exc |-> None, style |-> r.style,
              value |-> IF attr \in DOMAIN r.style THEN r.style[attr]
                        ELSE default_value]

\* A lookup that reads the class entry with setdefault
StylesAfterSetDefault(styles, class_name, state, base_name) ==
    SetDefault(styles, class_name, EmptyDict)

\* self._styles after a lookup: get_dict_for_class only reads
\* self._styles[class_name][state] inside try/except KeyError and builds new
\* dicts; it assigns nothing in the table
StylesAfterLookup(styles, class_name, state, base_name) == styles

\* light_theme = Theme(); dark_theme = Theme(): both empty at import
ModuleThemes == [name \in {"light_theme", "dark_theme"} |-> EmptyDict]

NoCall == [fn |-> None, class_name |-> None, state |-> None, base_name |-> None,
           attr |-> None, params |-> <<>>, exc |-> None, style |-> EmptyDict,
           value |-> None, before |-> EmptyDict, n |-> 0, first |-> <<>>]

ThemeInit ==
    /\ _styles = EmptyDict
    /\ ret = NoQuery
    /\ call = NoCall
    /\ named_themes = ModuleThemes

\* a_theme.set(class_name, state, key, value), while the theme is populated
ThemeSet(class_name, state, key, value) ==
    /\ ret = NoQuery
    /\ Cardinality(Entries(ThemeSetResult(_styles, class_name, state, key, value)))
          <= MaxEntries
    /\ _styles' = ThemeSetResult(_styles, class_name, state, key, value)
    /\ UNCHANGED <<ret, call, named_themes>>
    /\ UNCHANGED appVars

\* a_theme.get_dict_for_class(class_name, state) of the populated theme
GetDictForClass(class_name, state) ==
    /\ ret = NoQuery
    /\ LET r == get_dict_for_class(_styles, class_name, state, "View")
       IN  ret' = [class_name |-> class_name, state |-> state, base_name |-> "View",
                   exc |-> r.exc, style |-> r.style]
    /\ UNCHANGED <<_styles, call, named_themes>>
    /\ UNCHANGED appVars

ThemeNext ==
    \/ \E c \in ViewClasses, s \in StateNames, k \in StyleKeys, v \in StyleValues :
          ThemeSet(c, s, k, v)
    \/ \E c \in ViewClasses, s \in StateNames \cup {None} :
          GetDictForClass(c, s)

\* ---- Lookups of a populated theme, with any base_name ----

QueryBases == {"View", "Control"}
DefaultValue == "default_value"

\* The call is the first lookup, or repeats the lookup just made
FirstOrSame(fn, class_name, state, base_name, attr) ==
    /\ ret = NoQuery
    /\ \/ call.n = 0
       \/ /\ call.n = 1
          /\ call.fn = fn /\ call.class_name = class_name /\ call.state = state
          /\ call.base_name = base_name /\ call.attr = attr

\* The record of a lookup that returned or raised r
Looked(fn, class_name, state, base_name, attr, r) ==
    [fn |-> fn, class_name |-> class_name, state |-> state, base_name |-> base_name,
     attr |-> attr, params |-> <<>>, exc |-> r.exc, style |-> r.style,
     value |-> r.value,
     before |-> IF call.n = 0 THEN _styles ELSE call.before,
     n |-> call.n + 1,
     first |-> IF call.n = 0 THEN <<>>
               ELSE <<[exc |-> call.exc, style |-> call.style, value |-> call.value]>>]

\* a_theme.set(class_name, state, key, 'gray') before any lookup
QuerySet(class_name, state, key) ==
    /\ call.n = 0
    /\ ThemeSet(class_name, state, key, "gray")

\* a_theme.get_dict_for_class(class_name, state, base_name)
GetDictForClassFrom(class_name, state, base_name) ==
    /\ FirstOrSame("get_dict_for_class", class_name, state, base_name, None)
    /\ LET r == get_dict_for_class(_styles, class_name, state, base_name)
       IN  call' = Looked("get_dict_for_class", class_name, state, base_name, None,
                          [exc |-> r.exc, style |-> r.style, value |-> None])
    /\ _styles' = StylesAfterLookup(_styles, class_name, state, base_name)
    /\ UNCHANGED <<ret, named_themes>>
    /\ UNCHANGED appVars

\* a_theme.get_dict(obj, 'selected', base_name) for a view of class
\* class_name whose state attribute is state
GetDict(class_name, state, base_name) ==
    /\ FirstOrSame("get_dict", class_name, state, base_name, None)
    /\ LET r == get_dict(_styles, [class |-> class_name, state |-> state],
                         "selected", base_name)
       IN  call' = Looked("get_dict", class_name, state, base_name, None,
                          [exc |-> r.exc, style |-> r.style, value |-> None])
    /\ _styles' = StylesAfterLookup(_styles, class_name, state, base_name)
    /\ UNCHANGED <<ret, named_themes>>
    /\ UNCHANGED appVars

\* a_theme.get_value(class_name, attr, DefaultValue, state, base_name)
GetValue(class_name, attr, state, base_name) ==
    /\ FirstOrSame("get_value", class_name, state, base_name, attr)
    /\ call' = Looked("get_value", class_name, state, base_name, attr,
                      get_value(_styles, class_name, attr, DefaultValue, state,
                                base_name))
    /\ _styles' = StylesAfterLookup(_styles, class_name, state, base_name)
    /\ UNCHANGED <<ret, named_themes>>
    /\ UNCHANGED appVars

QueryNext ==
    \/ \E c \in ViewClasses, s \in StateNames, k \in StyleKeys : QuerySet(c, s, k)
    \/ \E c \in ViewClasses, s \in StateNames \cup {None}, b \in QueryBases :
          GetDictForClassFrom(c, s, b)
    \/ \E c \in ViewClasses, s \in StateNames, b \in QueryBases : GetDict(c, s, b)
    \/ \E c \in ViewClasses, k \in StyleKeys, s \in {"normal", "focused"},
          b \in QueryBases : GetValue(c, k, s, b)

\* ---- set_for_class and set_for_theme ----

\* The order of the state names as Python compares strings
StateRank(state) ==
    CASE state = "focused"  -> 1
      [] state = "normal"   -> 2
      [] state = "selected" -> 3

\* x put into a list sorted by state, after (keepEqual) or before the
\* tuples of its own state
InsertByState(list, x, keepEqual) ==
    LET before == {i \in 1..Len(list) :
                      \/ StateRank(list[i][1]) < StateRank(x[1])
                      \/ keepEqual /\ StateRank(list[i][1]) = StateRank(x[1])}
        n == Cardinality(before)
    IN  SubSeq(list, 1, n) \o <<x>> \o SubSeq(list, n + 1, Len(list))

RECURSIVE SortLoop(_, _, _, _)
SortLoop(params, i, acc, keepEqual) ==
    IF i > Len(params) THEN acc
    ELSE SortLoop(params, i + 1, InsertByState(acc, params[i], keepEqual), keepEqual)

\* A sort that does not keep the listed order of tuples of one state
SortedUnstable(params) == SortLoop(params, 1, <<>>, FALSE)

\* sorted(params, key=lambda x: x[0]): by state, stable
Sorted(params) == SortLoop(params, 1, <<>>, TRUE)

\* The for loop of set_for_class over the sorted tuples
RECURSIVE SetLoop(_, _, _, _)
SetLoop(styles, class_name, list, i) ==
    IF i > Len(list) THEN styles
    ELSE LET state == list[i][1]
             s1 == SetItem(styles, class_name,
                           SetDefault(styles[class_name], state, EmptyDict))
         IN  SetLoop(SetItem(s1, class_name,
                             SetItem(s1[class_name], state,
                                     SetItem(s1[class_name][state],
                                             list[i][2], list[i][3]))),
                     class_name, list, i + 1)

\* Theme.set_for_class
set_for_class(styles, class_name, params) ==
    SetLoop(SetDefault(styles, class_name, EmptyDict), class_name, Sorted(params), 1)

\* Theme.set_for_theme
RECURSIVE set_for_theme(_, _, _)
set_for_theme(styles, params, i) ==
    IF i > Len(params) THEN styles
    ELSE set_for_theme(set_for_class(styles, params[i][1], params[i][2]), params,
                       i + 1)

MaxParams == 3

BatchClasses == {"View", "Control"}
BatchStates == {"normal", "focused"}

\* The (state, key, value) tuples of a set_for_class list
ClassTuples == BatchStates \X StyleKeys \X StyleValues

\* The lists over S of at most n elements
RECURSIVE SeqsUpTo(_, _)
SeqsUpTo(S, n) ==
    IF n = 0 THEN {<<>>}
    ELSE LET shorter == SeqsUpTo(S, n - 1)
         IN  shorter \cup {Append(q, x) : q \in shorter, x \in S}

\* The (class_name, args) pairs of a set_for_theme list: up to two tuples
\* on one key
ThemeTuples == BatchStates \X {"background_color"} \X StyleValues
ThemePairs ==
    BatchClasses \X ({<<>>} \cup {<<x>> : x \in ThemeTuples}
                          \cup {<<x, y>> : x \in ThemeTuples, y \in ThemeTuples})
ThemeLists == {<<p>> : p \in ThemePairs} \cup {<<p, q>> : p \in ThemePairs, q \in ThemePairs}

\* The record of a batch call
Batched(fn, class_name, params) ==
    [fn |-> fn, class_name |-> class_name, state |-> None, base_name |-> None,
     attr |-> None, params |-> params, exc |-> None, style |-> EmptyDict,
     value |-> None, before |-> _styles, n |-> 1, first |-> <<>>]

\* a_theme.set(class_name, 'normal', key, 'gray') before the batch call
BatchSet(class_name, key) ==
    /\ call.n = 0
    /\ ThemeSet(class_name, "normal", key, "gray")

\* a_theme.set_for_class(class_name, params), for a list of at most
\* MaxParams tuples
SetForClass ==
    /\ call.n = 0 /\ ret = NoQuery
    /\ \E class_name \in BatchClasses, params \in SeqsUpTo(ClassTuples, MaxParams) :
          /\ _styles' = set_for_class(_styles, class_name, params)
          /\ call' = Batched("set_for_class", class_name, params)
    /\ UNCHANGED <<ret, named_themes>>
    /\ UNCHANGED appVars

\* a_theme.set_for_theme(params)
SetForTheme ==
    /\ call.n = 0 /\ ret = NoQuery
    /\ \E params \in ThemeLists :
          /\ _styles' = set_for_theme(_styles, params, 1)
          /\ call' = Batched("set_for_theme", None, params)
    /\ UNCHANGED <<ret, named_themes>>
    /\ UNCHANGED appVars

BatchNext ==
    \/ \E c \in BatchClasses, k \in StyleKeys : BatchSet(c, k)
    \/ SetForClass
    \/ SetForTheme

(***************************************************************************)
(* view.py, focus.py: the view tree, the scene stack and the focus slot    *)
(* the dispatcher works on.                                                *)
(***************************************************************************)

Scenes == {"scene1", "scene2"}
Views == {"a", "b", "c", "d"}

\* view.parent: scene1 holds a and b, b holds c; scene2 holds d.
ParentOf(v) ==
    CASE v = "a" -> "scene1"
      [] v = "b" -> "scene1"
      [] v = "c" -> "b"
      [] v = "d" -> "scene2"
      [] OTHER   -> None

\* view.children, in the order they were added
ChildrenOf(v) ==
    CASE v = "scene1" -> <<"a", "b">>
      [] v = "b"      -> <<"c">>
      [] v = "scene2" -> <<"d">>
      [] OTHER        -> <<>>

\* view.frame, in the coordinates of the parent; a scene takes window.rect
FrameOf(v) ==
    CASE v \in Scenes -> [left |-> 0, top |-> 0, width |-> 3, height |-> 1]
      [] v = "a"      -> [left |-> 1, top |-> 0, width |-> 1, height |-> 1]
      [] v = "b"      -> [left |-> 2, top |-> 0, width |-> 1, height |-> 1]
      [] v = "c"      -> [left |-> 0, top |-> 0, width |-> 1, height |-> 1]
      [] v = "d"      -> [left |-> 0, top |-> 0, width |-> 2, height |-> 1]

\* view.draggable
Draggable(v) == v \in {"a", "d"}

\* The positions pygame.mouse.get_pos() reports: the window's, and one on the
\* screen outside of the window.
Points == {<<0, 0>>, <<1, 0>>, <<2, 0>>, <<3, 0>>}

NoPoint == <<>>

\* Rect.collidepoint
CollidePoint(r, pt) ==
    /\ r.left <= pt[1] /\ pt[1] < r.left + r.width
    /\ r.top <= pt[2] /\ pt[2] < r.top + r.height

\* View.from_parent
FromParent(v, pt) == <<pt[1] - FrameOf(v).left, pt[2] - FrameOf(v).top>>

\* View.hit: the deepest view whose frame holds the point, the topmost child
\* first, or None
RECURSIVE Hit(_, _)
RECURSIVE HitChildren(_, _, _)
HitChildren(children, i, local_pt) ==
    IF i < 1 THEN None
    ELSE LET h == Hit(children[i], local_pt)
         IN  IF h # None THEN h ELSE HitChildren(children, i - 1, local_pt)

Hit(v, pt) ==
    IF ~CollidePoint(FrameOf(v), pt) THEN None
    ELSE LET h == HitChildren(ChildrenOf(v), Len(ChildrenOf(v)), FromParent(v, pt))
         IN  IF h # None THEN h ELSE v

\* View.from_window: the offsets of every ancestor and of the view itself
RECURSIVE FromWindow(_, _)
FromWindow(v, pt) ==
    IF ParentOf(v) = None THEN FromParent(v, pt)
    ELSE FromParent(v, FromWindow(ParentOf(v), pt))

Buttons == {1}
KeyCodes == {"K_ESCAPE", "K_a"}
NoRel == <<>>

\* A pygame event
Event(type, pos, button, rel, key) ==
    [type |-> type, pos |-> pos, button |-> button, rel |-> rel, key |-> key]

\* One call the dispatcher makes on a view
Call(to, cb, pt, button, rel, key) ==
    [to |-> to, cb |-> cb, pt |-> pt, button |-> button, rel |-> rel, key |-> key]

NoEvent == Event(None, NoPoint, 0, NoRel, None)

\* mutant: the new view is notified before the old one is blurred
FocusSetFocusFirst(old, new) ==
    IF old = new THEN <<>>
    ELSE (IF new # None THEN <<Call(new, "focused", NoPoint, 0, NoRel, None)>> ELSE <<>>)
         \o (IF old # None THEN <<Call(old, "blurred", NoPoint, 0, NoRel, None)>> ELSE <<>>)

\* focus.set(new) while focus.view is old: the notifications it sends.  A view
\* that loses the focus is blurred before the new reference is installed, the
\* new view is then notified; setting the focused view again sends nothing.
FocusSetCalls(old, new) ==
    IF old = new THEN <<>>
    ELSE (IF old # None THEN <<Call(old, "blurred", NoPoint, 0, NoRel, None)>> ELSE <<>>)
         \o (IF new # None THEN <<Call(new, "focused", NoPoint, 0, NoRel, None)>> ELSE <<>>)

\* The views that report themselves focused after a sequence of calls
RECURSIVE ApplyFocusCalls(_, _, _)
ApplyFocusCalls(set, calls, i) ==
    IF i > Len(calls) THEN set
    ELSE ApplyFocusCalls(
            CASE calls[i].cb = "focused" -> set \cup {calls[i].to}
              [] calls[i].cb = "blurred" -> set \ {calls[i].to}
              [] OTHER -> set,
            calls, i + 1)

\* view.pop: the top scene leaves the stack; the stack after it
PopStack(stk) == IF Len(stk) > 0 THEN SubSeq(stk, 1, Len(stk) - 1) ELSE stk

\* view.current after the stack changed: its top, or None
TopOf(stk) == IF Len(stk) > 0 THEN stk[Len(stk)] ELSE None

(***************************************************************************)
(* __init__.py: run(), one step per event of a frame.                      *)
(***************************************************************************)

\* What handling one event does: the calls made on views, focus.view and
\* down_in_view afterwards, whether the scene stack was popped, and the
\* exception that ended the handling, if any.
Outcome(calls, focus, down, pop, exc) ==
    [calls |-> calls, focus |-> focus, down |-> down, pop |-> pop, exc |-> exc]

\* view.current is None: the attribute access on it raises
NoCurrent(focus, down) == Outcome(<<>>, focus, down, FALSE, "AttributeError")

\* mutant: the hit view is told focused() and installed without focus.set,
\* so the view that held the focus is not blurred
OnMouseButtonDownNoFocusSet(e, mousepoint, cur, focus, down) ==
    IF cur = None THEN NoCurrent(focus, down)
    ELSE LET hit_view == Hit(cur, mousepoint) IN
         IF hit_view # None /\ hit_view \notin Scenes
         THEN Outcome(<<Call(hit_view, "focused", NoPoint, 0, NoRel, None),
                        Call(hit_view, "mouse_down", FromWindow(hit_view, mousepoint),
                             e.button, NoRel, None)>>,
                      hit_view, hit_view, FALSE, None)
         ELSE Outcome(FocusSetCalls(focus, None), None, down, FALSE, None)

\* mutant: the press is delivered at the window point, from_window left out
OnMouseButtonDownWindowPoint(e, mousepoint, cur, focus, down) ==
    IF cur = None THEN NoCurrent(focus, down)
    ELSE LET hit_view == Hit(cur, mousepoint) IN
         IF hit_view # None /\ hit_view \notin Scenes
         THEN Outcome(FocusSetCalls(focus, hit_view)
                        \o <<Call(hit_view, "mouse_down", mousepoint,
                                  e.button, NoRel, None)>>,
                      hit_view, hit_view, FALSE, None)
         ELSE Outcome(FocusSetCalls(focus, None), None, down, FALSE, None)

\* A press that treats the scene like any other hit view
OnMouseButtonDownOnScene(e, mousepoint, cur, focus, down) ==
    IF cur = None THEN NoCurrent(focus, down)
    ELSE LET hit_view == Hit(cur, mousepoint) IN
         IF hit_view # None
         THEN Outcome(FocusSetCalls(focus, hit_view)
                        \o <<Call(hit_view, "mouse_down", FromWindow(hit_view, mousepoint),
                                  e.button, NoRel, None)>>,
                      hit_view, hit_view, FALSE, None)
         ELSE Outcome(FocusSetCalls(focus, None), None, down, FALSE, None)

\* if e.type == pygame.MOUSEBUTTONDOWN
OnMouseButtonDown(e, mousepoint, cur, focus, down) ==
    IF cur = None THEN NoCurrent(focus, down)
    ELSE LET hit_view == Hit(cur, mousepoint) IN
         IF hit_view # None /\ hit_view \notin Scenes
         THEN Outcome(FocusSetCalls(focus, hit_view)
                        \o <<Call(hit_view, "mouse_down", FromWindow(hit_view, mousepoint),
                                  e.button, NoRel, None)>>,
                      hit_view, hit_view, FALSE, None)
         ELSE Outcome(FocusSetCalls(focus, None), None, down, FALSE, None)

\* A release that blurs the pressed view wherever the button comes up
OnMouseButtonUpAlwaysBlurs(e, mousepoint, cur, focus, down) ==
    IF cur = None THEN NoCurrent(focus, down)
    ELSE LET hit_view == Hit(cur, mousepoint) IN
         IF hit_view # None
         THEN LET away == down # None IN
              Outcome((IF away
                       THEN <<Call(down, "blurred", NoPoint, 0, NoRel, None)>>
                              \o FocusSetCalls(focus, None)
                       ELSE <<>>)
                        \o <<Call(hit_view, "mouse_up", FromWindow(hit_view, mousepoint),
                                  e.button, NoRel, None)>>,
                      IF away THEN None ELSE focus, None, FALSE, None)
         ELSE Outcome(<<>>, focus, None, FALSE, None)

\* A release that clears down_in_view only when the hit-test found a view
OnMouseButtonUpKeepsOnMiss(e, mousepoint, cur, focus, down) ==
    IF cur = None THEN NoCurrent(focus, down)
    ELSE LET hit_view == Hit(cur, mousepoint) IN
         IF hit_view # None
         THEN LET away == down # None /\ hit_view # down IN
              Outcome((IF away
                       THEN <<Call(down, "blurred", NoPoint, 0, NoRel, None)>>
                              \o FocusSetCalls(focus, None)
                       ELSE <<>>)
                        \o <<Call(hit_view, "mouse_up", FromWindow(hit_view, mousepoint),
                                  e.button, NoRel, None)>>,
                      IF away THEN None ELSE focus, None, FALSE, None)
         ELSE Outcome(<<>>, focus, down, FALSE, None)

\* mutant: the release goes to the view that was pressed, when there is one
OnMouseButtonUpToPressed(e, mousepoint, cur, focus, down) ==
    IF cur = None THEN NoCurrent(focus, down)
    ELSE LET hit_view == Hit(cur, mousepoint) IN
         IF hit_view # None
         THEN LET away == down # None /\ hit_view # down
                  target == IF down # None THEN down ELSE hit_view IN
              Outcome((IF away
                       THEN <<Call(down, "blurred", NoPoint, 0, NoRel, None)>>
                              \o FocusSetCalls(focus, None)
                       ELSE <<>>)
                        \o <<Call(target, "mouse_up", FromWindow(target, mousepoint),
                                  e.button, NoRel, None)>>,
                      IF away THEN None ELSE focus, None, FALSE, None)
         ELSE Outcome(<<>>, focus, None, FALSE, None)

\* elif e.type == pygame.MOUSEBUTTONUP
OnMouseButtonUp(e, mousepoint, cur, focus, down) ==
    IF cur = None THEN NoCurrent(focus, down)
    ELSE LET hit_view == Hit(cur, mousepoint) IN
         IF hit_view # None
         THEN LET away == down # None /\ hit_view # down IN
              Outcome((IF away
                       THEN <<Call(down, "blurred", NoPoint, 0, NoRel, None)>>
                              \o FocusSetCalls(focus, None)
                       ELSE <<>>)
                        \o <<Call(hit_view, "mouse_up", FromWindow(hit_view, mousepoint),
                                  e.button, NoRel, None)>>,
                      IF away THEN None ELSE focus, None, FALSE, None)
         ELSE Outcome(<<>>, focus, None, FALSE, None)

\* mutant: the pressed view is dragged whether it is draggable or not
OnMouseMotionAnyPressed(e, mousepoint, cur, focus, down) ==
    IF down # None
    THEN Outcome(<<Call(down, "mouse_drag", FromWindow(down, mousepoint), 0, e.rel, None)>>,
                 focus, down, FALSE, None)
    ELSE IF cur = None THEN NoCurrent(focus, down)
    ELSE Outcome(<<Call(cur, "mouse_motion", mousepoint, 0, NoRel, None)>>,
                 focus, down, FALSE, None)

\* elif e.type == pygame.MOUSEMOTION
OnMouseMotion(e, mousepoint, cur, focus, down) ==
    IF down # None /\ Draggable(down)
    THEN Outcome(<<Call(down, "mouse_drag", FromWindow(down, mousepoint), 0, e.rel, None)>>,
                 focus, down, FALSE, None)
    ELSE IF cur = None THEN NoCurrent(focus, down)
    ELSE Outcome(<<Call(cur, "mouse_motion", mousepoint, 0, NoRel, None)>>,
                 focus, down, FALSE, None)

\* mutant: the key goes to the root whether a view is focused or not
OnKeyDownToRoot(e, mousepoint, cur, focus, down) ==
    IF cur = None THEN NoCurrent(focus, down)
    ELSE Outcome(<<Call(cur, "key_down", NoPoint, 0, NoRel, e.key)>>,
                 focus, down, cur \in Scenes /\ e.key = "K_ESCAPE", None)

\* elif e.type == pygame.KEYDOWN; Scene.key_down pops the scene on K_ESCAPE
OnKeyDown(e, mousepoint, cur, focus, down) ==
    IF focus # None
    THEN Outcome(<<Call(focus, "key_down", NoPoint, 0, NoRel, e.key)>>,
                 focus, down, FALSE, None)
    ELSE IF cur = None THEN NoCurrent(focus, down)
    ELSE Outcome(<<Call(cur, "key_down", NoPoint, 0, NoRel, e.key)>>,
                 focus, down, cur \in Scenes /\ e.key = "K_ESCAPE", None)

\* elif e.type == pygame.KEYUP
OnKeyUp(e, mousepoint, cur, focus, down) ==
    IF focus # None
    THEN Outcome(<<Call(focus, "key_up", NoPoint, 0, NoRel, e.key)>>,
                 focus, down, FALSE, None)
    ELSE IF cur = None THEN NoCurrent(focus, down)
    ELSE Outcome(<<Call(cur, "key_up", NoPoint, 0, NoRel, e.key)>>,
                 focus, down, FALSE, None)

\* The body of `for e in pygame.event.get()` for an event other than QUIT
Handle(e, mousepoint, cur, focus, down) ==
    CASE e.type = "MOUSEBUTTONDOWN" -> OnMouseButtonDown(e, mousepoint, cur, focus, down)
      [] e.type = "MOUSEBUTTONUP"   -> OnMouseButtonUp(e, mousepoint, cur, focus, down)
      [] e.type = "MOUSEMOTION"     -> OnMouseMotion(e, mousepoint, cur, focus, down)
      [] e.type = "KEYDOWN"         -> OnKeyDown(e, mousepoint, cur, focus, down)
      [] e.type = "KEYUP"           -> OnKeyUp(e, mousepoint, cur, focus, down)

Themes == {"light_theme", "dark_theme"}

\* The state before an event is handled, kept with the event
Snapshot == [focus |-> focus_view, down |-> down_in_view, current |-> view_current]

AppInit ==
    /\ stack = <<>>
    /\ view_current = None
    /\ theme_current = None
    /\ current_view = None          \* bound when theme.py is imported
    /\ focus_view = None
    /\ has_focus = {}
    /\ down_in_view = None
    /\ pc = "import"
    /\ raised = None
    /\ pointer \in Points
    /\ queue = <<>>
    /\ batch = <<>>
    /\ ev = NoEvent
    /\ log = <<>>
    /\ pre = [focus |-> None, down |-> None, current |-> None]

\* The part of the list init_light_theme passes to set_for_theme that
\* styles View and AlertView (color4 is white, color6 light gray, color7 gray)
LightParams ==
    << <<"View", << <<"normal", "border_color", "light_gray">>,
                    <<"normal", "border_widths", "0">> >> >>,
       <<"AlertView", << <<"normal", "title_label.background_color", "gray">>,
                         <<"normal", "title_label.text_color", "white">> >> >> >>

\* The same part of the list of init_dracula_theme
DraculaParams ==
    << <<"View", << <<"normal", "border_color", "red">>,
                    <<"normal", "border_widths", "0">> >> >>,
       <<"AlertView", << <<"normal", "title_label.background_color", "black">>,
                         <<"normal", "title_label.text_color", "red">> >> >> >>

\* init_light_theme(), init_dracula_theme(): a new Theme, filled with
\* set_for_theme and returned
init_light_theme == set_for_theme(EmptyDict, LightParams, 1)
init_dracula_theme == set_for_theme(EmptyDict, DraculaParams, 1)

\* theme.init(), as the tables under the module names afterwards: the
\* themes it builds are bound to the local names light, dark and
\* dracula_theme, and no module name is assigned
InitThemes(named) ==
    LET light == init_light_theme
        dracula_theme == init_dracula_theme
    IN  named

\* The style table of theme.current: the theme init() made current is the
\* one init_dracula_theme built; the others are reached by their module name
CurrentStyles ==
    CASE theme_current = "dracula_theme" -> init_dracula_theme
      [] theme_current \in DOMAIN named_themes -> named_themes[theme_current]
      [] OTHER -> EmptyDict

\* pygameui.init(): theme.init() builds the themes and makes the dracula
\* theme current with use_theme
InitCall ==
    /\ pc = "import"
    /\ pc' = "setup"
    /\ pre' = Snapshot
    /\ theme_current' = "dracula_theme"
    /\ ev' = Event("init", NoPoint, 0, NoRel, None)
    /\ log' = IF current_view # None
              THEN <<Call(current_view, "stylize", NoPoint, 0, NoRel, None)>>
              ELSE <<>>
    /\ named_themes' = InitThemes(named_themes)
    /\ UNCHANGED raised
    /\ UNCHANGED <<_styles, ret, call>>
    /\ UNCHANGED <<stack, view_current, current_view, focus_view, has_focus,
                   down_in_view, pointer, queue, batch>>

\* view.push(scene), before run(): the scene becomes current and is entered;
\* Scene.entered stylizes it
Push(scene) ==
    /\ pc = "setup"
    /\ \A i \in 1..Len(stack) : stack[i] # scene
    /\ pre' = Snapshot
    /\ stack' = Append(stack, scene)
    /\ view_current' = scene
    /\ ev' = Event("push", NoPoint, 0, NoRel, scene)
    /\ log' = <<Call(scene, "entered", NoPoint, 0, NoRel, None),
                Call(scene, "stylize", NoPoint, 0, NoRel, None)>>
    /\ UNCHANGED raised
    /\ UNCHANGED themeVars
    /\ UNCHANGED <<theme_current, current_view, focus_view, has_focus, down_in_view,
                   pc, pointer, queue, batch>>

\* theme.use_theme(theme)
UseTheme(theme) ==
    /\ pc = "setup"
    /\ pre' = Snapshot
    /\ theme_current' = theme
    /\ ev' = Event("use_theme", NoPoint, 0, NoRel, theme)
    /\ log' = IF current_view # None
              THEN <<Call(current_view, "stylize", NoPoint, 0, NoRel, None)>>
              ELSE <<>>
    /\ UNCHANGED raised
    /\ UNCHANGED themeVars
    /\ UNCHANGED <<stack, view_current, current_view, focus_view, has_focus,
                   down_in_view, pc, pointer, queue, batch>>

\* The check with assertions compiled out
AssertStripped(stk) == TRUE

\* assert len(view.stack) > 0
AssertStack(stk) == Len(stk) > 0

\* run(): assert len(view.stack) > 0, then the loop starts
RunStart ==
    /\ pc = "setup"
    /\ pre' = Snapshot
    /\ pc' = IF AssertStack(stack) THEN "tick" ELSE "crashed"
    /\ raised' = IF AssertStack(stack) THEN None ELSE "AssertionError"
    /\ ev' = Event("run", NoPoint, 0, NoRel, None)
    /\ log' = <<>>
    /\ UNCHANGED themeVars
    /\ UNCHANGED <<stack, view_current, theme_current, current_view, focus_view,
                   has_focus, down_in_view, pointer, queue, batch>>

\* The user moves the pointer: a MOUSEMOTION event is queued
PostMotion(p) ==
    /\ pc = "tick" /\ Len(queue) < MaxQueue
    /\ p # pointer
    /\ queue' = Append(queue, Event("MOUSEMOTION", p, 0,
                                    <<p[1] - pointer[1], p[2] - pointer[2]>>, None))
    /\ pointer' = p
    /\ UNCHANGED raised
    /\ UNCHANGED themeVars
    /\ UNCHANGED <<stack, view_current, theme_current, current_view, focus_view,
                   has_focus, down_in_view, pc, batch, ev, log, pre>>

\* The user presses or releases a mouse button where the pointer is
PostButton(type, button) ==
    /\ pc = "tick" /\ Len(queue) < MaxQueue
    /\ queue' = Append(queue, Event(type, pointer, button, NoRel, None))
    /\ UNCHANGED raised
    /\ UNCHANGED themeVars
    /\ UNCHANGED <<stack, view_current, theme_current, current_view, focus_view,
                   has_focus, down_in_view, pc, pointer, batch, ev, log, pre>>

\* The user presses or releases a key
PostKey(type, key) ==
    /\ pc = "tick" /\ Len(queue) < MaxQueue
    /\ queue' = Append(queue, Event(type, NoPoint, 0, NoRel, key))
    /\ UNCHANGED raised
    /\ UNCHANGED themeVars
    /\ UNCHANGED <<stack, view_current, theme_current, current_view, focus_view,
                   has_focus, down_in_view, pc, pointer, batch, ev, log, pre>>

\* The window is closed
PostQuit ==
    /\ pc = "tick" /\ Len(queue) < MaxQueue
    /\ queue' = Append(queue, Event("QUIT", NoPoint, 0, NoRel, None))
    /\ UNCHANGED raised
    /\ UNCHANGED themeVars
    /\ UNCHANGED <<stack, view_current, theme_current, current_view, focus_view,
                   has_focus, down_in_view, pc, pointer, batch, ev, log, pre>>

\* clock.tick(60); pygame.event.get(): the frame's events are taken
EventGet ==
    /\ pc = "tick"
    /\ batch' = queue
    /\ queue' = <<>>
    /\ pc' = "events"
    /\ UNCHANGED raised
    /\ UNCHANGED themeVars
    /\ UNCHANGED <<stack, view_current, theme_current, current_view, focus_view,
                   has_focus, down_in_view, pointer, ev, log, pre>>

\* A dispatcher that catches what a callback raises and carries on
RaiseSwallowed(o, i, focus, down) == o

\* The i-th callback made for an event raises on entry.  run() has no
\* try/except, so the loop body stops there: the calls up to the raising one
\* were made, the statements after it were not.  The focus reference is the
\* new one if the raising call is the `focused` notification, the old one if it
\* is a `blurred` one, and down_in_view is assigned only before mouse_down.
Raise(o, i, focus, down) ==
    LET c == o.calls[i]
    IN  Outcome(SubSeq(o.calls, 1, i),
                CASE c.cb = "focused" -> c.to
                  [] c.cb = "blurred" -> focus
                  [] OTHER -> o.focus,
                IF c.cb = "mouse_down" THEN o.down ELSE down,
                FALSE, "Exception")

\* A quit event that is skipped like an unknown event type
DispatchQuitIgnored ==
    /\ pc = "events" /\ batch # <<>>
    /\ Head(batch).type = "QUIT"
    /\ pre' = Snapshot
    /\ ev' = Head(batch)
    /\ log' = <<>>
    /\ batch' = Tail(batch)
    /\ UNCHANGED <<pc, raised>>
    /\ UNCHANGED themeVars
    /\ UNCHANGED <<stack, view_current, theme_current, current_view, focus_view,
                   has_focus, down_in_view, pointer, queue>>

\* A loop that takes the newest event first
ForNextNewest(events) == events[Len(events)]

\* `for e in pygame.event.get()`: the loop takes the events oldest first
ForNext(events) == Head(events)

\* if e.type == pygame.QUIT: pygame.quit(); sys.exit()
DispatchQuit ==
    /\ pc = "events" /\ batch # <<>>
    /\ ForNext(batch).type = "QUIT"
    /\ pre' = Snapshot
    /\ ev' = ForNext(batch)
    /\ log' = <<>>
    /\ batch' = Tail(batch)
    /\ pc' = "exited"
    /\ UNCHANGED raised
    /\ UNCHANGED themeVars
    /\ UNCHANGED <<stack, view_current, theme_current, current_view, focus_view,
                   has_focus, down_in_view, pointer, queue>>

\* One pass of the for loop for any other event; mousepoint is
\* pygame.mouse.get_pos()
Dispatch ==
    /\ pc = "events" /\ batch # <<>>
    /\ ForNext(batch).type # "QUIT"
    /\ \E o \in {Handle(ForNext(batch), pointer, view_current, focus_view,
                         down_in_view)} :
           /\ pre' = Snapshot
           /\ ev' = ForNext(batch)
           /\ log' = o.calls
           /\ focus_view' = o.focus
           /\ has_focus' = ApplyFocusCalls(has_focus, o.calls, 1)
           /\ down_in_view' = o.down
           /\ stack' = IF o.pop THEN PopStack(stack) ELSE stack
           /\ view_current' = IF o.pop THEN TopOf(PopStack(stack)) ELSE view_current
           /\ pc' = IF o.exc # None THEN "crashed" ELSE pc
           /\ raised' = o.exc
           /\ batch' = Tail(batch)
    /\ UNCHANGED themeVars
    /\ UNCHANGED <<theme_current, current_view, pointer, queue>>

\* One pass of the for loop in which the i-th callback raises
DispatchRaise ==
    /\ pc = "events" /\ batch # <<>>
    /\ ForNext(batch).type # "QUIT"
    /\ \E o \in {Handle(ForNext(batch), pointer, view_current, focus_view,
                         down_in_view)} :
           /\ o.exc = None
           /\ \E i \in 1..Len(o.calls) :
                \E r \in {Raise(o, i, focus_view, down_in_view)} :
                    /\ pre' = Snapshot
                    /\ ev' = ForNext(batch)
                    /\ log' = r.calls
                    /\ focus_view' = r.focus
                    /\ has_focus' = ApplyFocusCalls(has_focus,
                                        SubSeq(r.calls, 1, Len(r.calls) - 1), 1)
                    /\ down_in_view' = r.down
                    /\ stack' = IF r.pop THEN PopStack(stack) ELSE stack
                    /\ view_current' = IF r.pop THEN TopOf(PopStack(stack))
                                       ELSE view_current
                    /\ pc' = IF r.exc # None THEN "crashed" ELSE pc
                    /\ raised' = "Exception"
                    /\ batch' = Tail(batch)
    /\ UNCHANGED themeVars
    /\ UNCHANGED <<theme_current, current_view, pointer, queue>>

\* After the for loop: view.current.update(dt), view.current.draw(), flip
EndFrame ==
    /\ pc = "events" /\ batch = <<>>
    /\ pre' = Snapshot
    /\ ev' = Event("frame", NoPoint, 0, NoRel, None)
    /\ log' = IF view_current # None
              THEN <<Call(view_current, "update", NoPoint, 0, NoRel, None),
                     Call(view_current, "draw", NoPoint, 0, NoRel, None)>>
              ELSE <<>>
    /\ pc' = IF view_current # None THEN "tick" ELSE "crashed"
    /\ raised' = IF view_current # None THEN None ELSE "AttributeError"
    /\ UNCHANGED themeVars
    /\ UNCHANGED <<stack, view_current, theme_current, current_view, focus_view,
                   has_focus, down_in_view, pointer, queue, batch>>

AppNext ==
    \/ InitCall
    \/ \E scene \in Scenes : Push(scene)
    \/ \E theme \in Themes : UseTheme(theme)
    \/ RunStart
    \/ \E p \in Points : PostMotion(p)
    \/ \E type \in {"MOUSEBUTTONDOWN", "MOUSEBUTTONUP"}, b \in Buttons : PostButton(type, b)
    \/ \E type \in {"KEYDOWN", "KEYUP"}, k \in KeyCodes : PostKey(type, k)
    \/ PostQuit
    \/ EventGet
    \/ DispatchQuit
    \/ Dispatch
    \/ DispatchRaise
    \/ EndFrame

vars == <<_styles, ret, call, named_themes, stack, view_current, theme_current, current_view, focus_view,
          has_focus, down_in_view, pc, raised, pointer, queue, batch,
          ev, log, pre>>

Init == ThemeInit /\ AppInit

\* The style table of a theme: populated, then queried.  The application
\* does not move, so one place of the pointer stands for all.
InitTheme == Init /\ pointer = <<0, 0>>

SpecTheme == InitTheme /\ [][ThemeNext]_vars
SpecQuery == InitTheme /\ [][QueryNext]_vars
SpecBatch == InitTheme /\ [][BatchNext]_vars

\* The application: scenes are pushed, a theme is chosen, run() dispatches.
Spec == Init /\ [][AppNext]_vars

(***************************************************************************)
(* Style resolution: the claims.                                           *)
(***************************************************************************)

\* The table holds a value for (class, state, key).
IsSet(c, s, k) ==
    /\ c \in DOMAIN _styles
    /\ s \in DOMAIN _styles[c]
    /\ k \in DOMAIN _styles[c][s]

\* The class is styled for key k in the queried state or in 'normal'.
Styles(c, s, k) == IsSet(c, s, k) \/ IsSet(c, "normal", k)

\* A query was made and returned a map.
Queried == ret.class_name # None /\ ret.exc = None

\* The state a query resolves: None stands for 'normal'.
QState == IF ret.state = None THEN "normal" ELSE ret.state

\* The classes strictly between the leaf and the base, and the chain of each
\* class, nearest first.
ChainOf(c) ==
    CASE c = "Button"  -> <<"Button", "Control", "View">>
      [] c = "Control" -> <<"Control", "View">>
      [] c = "View"    -> <<"View">>

\* C1: resolving Leaf (Button) for a state s, a key set on both Base (View)
\* and Leaf for s has the Leaf value; a key no more derived class styles
\* keeps the value of Mid (Control), or of Base when Mid does not set it.
C1_DerivedWins ==
    (Queried /\ ret.class_name = "Button") =>
        \A k \in StyleKeys :
            /\ (IsSet("Button", QState, k) /\ IsSet("View", QState, k)) =>
                   /\ k \in DOMAIN ret.style
                   /\ ret.style[k] = _styles["Button"][QState][k]
            /\ (~Styles("Button", QState, k) /\ IsSet("Control", QState, k)) =>
                   /\ k \in DOMAIN ret.style
                   /\ ret.style[k] = _styles["Control"][QState][k]
            /\ (~Styles("Button", QState, k) /\ ~Styles("Control", QState, k)
                  /\ IsSet("View", QState, k)) =>
                   /\ k \in DOMAIN ret.style
                   /\ ret.style[k] = _styles["View"][QState][k]

\* a Button query where Leaf and Base set one key to different values for the
\* state and Mid alone sets another
C1_Witness ==
    /\ Queried /\ ret.class_name = "Button"
    /\ \E k1, k2 \in StyleKeys :
          /\ k1 # k2
          /\ IsSet("Button", QState, k1) /\ IsSet("View", QState, k1)
          /\ _styles["Button"][QState][k1] # _styles["View"][QState][k1]
          /\ IsSet("Control", QState, k2)
          /\ ~Styles("Button", QState, k2) /\ ~Styles("View", QState, k2)
          /\ ret.style[k1] = _styles["Button"][QState][k1]
          /\ ret.style[k2] = _styles["Control"][QState][k2]

\* C2: state underlay.  Resolving class C for a state s other than 'normal':
\* a key set in C's 'normal' cell and not in C's s cell has the normal value,
\* a key set in both has the s value, and a key set only in the base class's
\* 'normal' cell is returned when a derived class is resolved for s.
C2_StateUnderlay ==
    (Queried /\ QState # "normal") =>
        LET c == ret.class_name IN
        \A k \in StyleKeys :
            /\ (IsSet(c, "normal", k) /\ ~IsSet(c, QState, k)) =>
                   /\ k \in DOMAIN ret.style
                   /\ ret.style[k] = _styles[c]["normal"][k]
            /\ (IsSet(c, "normal", k) /\ IsSet(c, QState, k)) =>
                   /\ k \in DOMAIN ret.style
                   /\ ret.style[k] = _styles[c][QState][k]
            /\ (/\ IsSet("View", "normal", k) /\ ~IsSet("View", QState, k)
                /\ \A d \in {"Button", "Control"} : ~Styles(d, QState, k)) =>
                   /\ k \in DOMAIN ret.style
                   /\ ret.style[k] = _styles["View"]["normal"][k]

\* a query for a non-normal state of a class whose 'normal' and state cells
\* both set a key, to different values
C2_Witness ==
    /\ Queried /\ QState # "normal"
    /\ \E k \in StyleKeys :
          /\ IsSet(ret.class_name, "normal", k) /\ IsSet(ret.class_name, QState, k)
          /\ _styles[ret.class_name]["normal"][k] # _styles[ret.class_name][QState][k]
          /\ ret.style[k] = _styles[ret.class_name][QState][k]

\* The layers of a query in order of precedence: for each class of the chain,
\* nearest first, its cell for the state and then its 'normal' cell.
RECURSIVE LayersFrom(_, _, _)
LayersFrom(chain, i, s) ==
    IF i > Len(chain) THEN <<>>
    ELSE <<<<chain[i], s>>, <<chain[i], "normal">>>> \o LayersFrom(chain, i + 1, s)

\* The index of the first layer that sets k, or 0.
RECURSIVE FirstLayer(_, _, _)
FirstLayer(layers, i, k) ==
    IF i > Len(layers) THEN 0
    ELSE IF IsSet(layers[i][1], layers[i][2], k) THEN i
    ELSE FirstLayer(layers, i + 1, k)

\* C3: for a state other than 'normal', each key of the resolved map has the
\* value of the first layer that sets it, in the order leaf state cell, leaf
\* 'normal' cell, then each ancestor's state cell and 'normal' cell, nearest
\* ancestor first; a key no layer sets is absent.
C3_LayerPrecedence ==
    (Queried /\ QState # "normal") =>
        LET layers == LayersFrom(ChainOf(ret.class_name), 1, QState) IN
        \A k \in StyleKeys :
            LET i == FirstLayer(layers, 1, k) IN
            IF i = 0 THEN k \notin DOMAIN ret.style
            ELSE /\ k \in DOMAIN ret.style
                 /\ ret.style[k] = _styles[layers[i][1]][layers[i][2]][k]

\* a derived class sets a key for 'normal' only, an ancestor sets it for the
\* queried state to another value, and the query returns the derived value
C3_Witness ==
    /\ Queried /\ QState # "normal" /\ ret.class_name = "Button"
    /\ \E k \in StyleKeys, a \in {"Control", "View"} :
          /\ IsSet("Button", "normal", k) /\ ~IsSet("Button", QState, k)
          /\ IsSet(a, QState, k)
          /\ _styles[a][QState][k] # _styles["Button"]["normal"][k]
          /\ ret.style[k] = _styles["Button"]["normal"][k]

(***************************************************************************)
(* Event dispatch: the claims.                                             *)
(***************************************************************************)

\* Where each view's frame starts in the window, and the view a point of the
\* window falls on under each scene, read off the layout.
WindowOrigin(v) ==
    CASE v = "a" -> <<1, 0>>
      [] v = "b" -> <<2, 0>>
      [] v = "c" -> <<2, 0>>
      [] OTHER   -> <<0, 0>>

ViewAt(scene, pt) ==
    CASE scene = "scene1" /\ pt = <<0, 0>> -> "scene1"
      [] scene = "scene1" /\ pt = <<1, 0>> -> "a"
      [] scene = "scene1" /\ pt = <<2, 0>> -> "c"
      [] scene = "scene2" /\ pt \in {<<0, 0>>, <<1, 0>>} -> "d"
      [] scene = "scene2" /\ pt = <<2, 0>> -> "scene2"
      [] OTHER -> None

\* The point in the local coordinates of a view
LocalPoint(v, pt) == <<pt[1] - WindowOrigin(v)[1], pt[2] - WindowOrigin(v)[2]>>

\* The point lies in the frame of the view
InFrame(v, pt) ==
    LET l == LocalPoint(v, pt)
    IN  /\ 0 <= l[1] /\ l[1] < FrameOf(v).width
        /\ 0 <= l[2] /\ l[2] < FrameOf(v).height

\* The calls of the last event that are callback cb, and those made on view v
CallsOf(cb) == {i \in 1..Len(log) : log[i].cb = cb}
CallsOn(cb, v) == {i \in CallsOf(cb) : log[i].to = v}

\* The last step handled an event of this type with a root active, and every
\* callback it made returned
Handled(type) == ev.type = type /\ pre.current # None /\ raised = None

\* C4: after a press on view A (A pressed and focused), a pointer-up outside
\* A's frame sends A exactly one blur in total, leaves no view focused, and
\* delivers release to the view under the release point, if there is one.
C4_ReleaseOutsideBlursOnce ==
    (/\ Handled("MOUSEBUTTONUP")
     /\ pre.down \in Views /\ pre.focus = pre.down
     /\ ev.pos = pointer /\ ~InFrame(pre.down, pointer)) =>
        /\ Cardinality(CallsOn("blurred", pre.down)) = 1
        /\ focus_view = None
        /\ has_focus = {}
        /\ ViewAt(pre.current, pointer) # None =>
              Cardinality(CallsOn("mouse_up", ViewAt(pre.current, pointer))) = 1

\* C5: use_theme(theme) makes theme current, and stylizes the active root
\* when there is one, and nothing when there is none.
C5_UseThemeStylizesRoot ==
    ev.type = "use_theme" =>
        /\ theme_current = ev.key
        /\ view_current # None =>
              /\ Cardinality(CallsOf("stylize")) = 1
              /\ CallsOn("stylize", view_current) = CallsOf("stylize")
        /\ view_current = None => CallsOf("stylize") = {}

\* C6: at most one view is focused, and it is the one focus.view names; when
\* an event moves the focus from view A to view B, A is blurred exactly once
\* and before B is told it is focused.
C6_FocusExclusive ==
    /\ Cardinality(has_focus) <= 1
    /\ has_focus \subseteq {focus_view}
    /\ (pre.focus \in Views /\ focus_view \in Views /\ focus_view # pre.focus) =>
          /\ Cardinality(CallsOn("blurred", pre.focus)) = 1
          /\ Cardinality(CallsOn("focused", focus_view)) = 1
          /\ \A i \in CallsOn("blurred", pre.focus), j \in CallsOn("focused", focus_view) :
                i < j

\* the focus moved from view a to the nested view c
C6_Witness ==
    /\ Handled("MOUSEBUTTONDOWN")
    /\ pre.focus = "a" /\ focus_view = "c" /\ has_focus = {"c"}
    /\ CallsOn("blurred", "a") = {1} /\ CallsOn("focused", "c") = {2}

\* C7: a pointer-down in state IDLE whose hit-test returns a view that is
\* not a Scene focuses that view, delivers exactly one press, to that view
\* and at the pointer in the view's local coordinates, and leaves the view
\* pressed.
C7_PressHitsView ==
    (/\ Handled("MOUSEBUTTONDOWN")
     /\ pre.down = None
     /\ ViewAt(pre.current, pointer) \in Views) =>
        LET hit == ViewAt(pre.current, pointer) IN
        /\ focus_view = hit
        /\ down_in_view = hit
        /\ Cardinality(CallsOf("mouse_down")) = 1
        /\ \A i \in CallsOf("mouse_down") :
              /\ log[i].to = hit
              /\ log[i].pt = LocalPoint(hit, pointer)
              /\ log[i].button = ev.button

\* a press on the nested view c, whose local point differs from the window's
C7_Witness ==
    /\ Handled("MOUSEBUTTONDOWN") /\ pre.down = None
    /\ pointer = <<2, 0>> /\ down_in_view = "c" /\ focus_view = "c"
    /\ \E i \in CallsOf("mouse_down") : log[i].to = "c" /\ log[i].pt = <<0, 0>>

\* C8: a pointer-move makes exactly one call: a drag, with the local point
\* and the delta, on the pressed view when there is one and it is draggable,
\* and otherwise a motion on the root; never both.
C8_MoveDragOrHover ==
    Handled("MOUSEMOTION") =>
        /\ Len(log) = 1
        /\ down_in_view = pre.down
        /\ IF pre.down # None /\ pre.down \in {"a", "d"}
           THEN log[1] = Call(pre.down, "mouse_drag", LocalPoint(pre.down, pointer),
                              0, ev.rel, None)
           ELSE log[1] = Call(pre.current, "mouse_motion", pointer, 0, NoRel, None)

\* the pressed draggable view a is dragged
C8_Witness ==
    /\ Handled("MOUSEMOTION") /\ pre.down = "a"
    /\ Len(log) = 1 /\ log[1].to = "a" /\ log[1].cb = "mouse_drag"

\* the pressed view c, which is not draggable, is not told of the move
C8_WitnessHover ==
    /\ Handled("MOUSEMOTION") /\ pre.down = "c"
    /\ Len(log) = 1 /\ log[1].to = "scene1" /\ log[1].cb = "mouse_motion"

\* C9: release is delivered only to the view the hit-test returns at the
\* release point, whose frame holds the point: a view pressed before never
\* receives the release of a point hit-testing to another view.
C9_ReleaseOnlyToHit ==
    Handled("MOUSEBUTTONUP") =>
        /\ \A i \in CallsOf("mouse_up") :
              /\ log[i].to = ViewAt(pre.current, pointer)
              /\ InFrame(log[i].to, pointer)
              /\ log[i].pt = LocalPoint(log[i].to, pointer)
        /\ (pre.down # None /\ ViewAt(pre.current, pointer) # pre.down) =>
              CallsOn("mouse_up", pre.down) = {}
        /\ ViewAt(pre.current, pointer) # None => Cardinality(CallsOf("mouse_up")) = 1

\* view a was pressed and the release falls on view c
C9_Witness ==
    /\ Handled("MOUSEBUTTONUP") /\ pre.down = "a" /\ pointer = <<2, 0>>
    /\ Cardinality(CallsOn("mouse_up", "c")) = 1 /\ CallsOn("mouse_up", "a") = {}

\* C10: a key-down or key-up is delivered to exactly one recipient, the
\* focused view when there is one and the current root otherwise, and leaves
\* the pressed view as it was.
C10_KeyRouting ==
    (/\ ev.type \in {"KEYDOWN", "KEYUP"}
     /\ (pre.focus # None \/ pre.current # None)) =>
        /\ Len(log) = 1
        /\ log[1] = Call(IF pre.focus # None THEN pre.focus ELSE pre.current,
                         IF ev.type = "KEYDOWN" THEN "key_down" ELSE "key_up",
                         NoPoint, 0, NoRel, ev.key)
        /\ down_in_view = pre.down
        /\ focus_view = pre.focus

\* a key goes to the focused view while a view is pressed
C10_Witness ==
    /\ ev.type = "KEYDOWN" /\ pre.focus = "a" /\ pre.down = "a"
    /\ Len(log) = 1 /\ log[1].to = "a" /\ down_in_view = "a"

\* a key goes to the root when no view is focused
C10_WitnessRoot ==
    /\ ev.type = "KEYUP" /\ pre.focus = None /\ pre.down = "c"
    /\ Len(log) = 1 /\ log[1].to = "scene1" /\ down_in_view = "c"


\* ---- The frame ----

EventTypes == {"MOUSEBUTTONDOWN", "MOUSEBUTTONUP", "MOUSEMOTION", "KEYDOWN", "KEYUP"}

UpdateDraw(root) == <<Call(root, "update", NoPoint, 0, NoRel, None),
                      Call(root, "draw", NoPoint, 0, NoRel, None)>>

\* The calls the dispatcher makes for the event of the last step when every
\* callback returns
CallsFor == Handle(ev, pointer, pre.current, pre.focus, pre.down).calls

\* The step drains the queue, handles one event, ends the frame
Drain == pc = "tick" /\ pc' = "events"
LoopStep == pc = "events" /\ pc' \in {"events", "crashed", "exited"} /\ batch # <<>>
FramePass == pc = "events" /\ batch = <<>>

\* The step takes the oldest event of the batch and leaves the rest
TakesOldest == ev' = Head(batch) /\ batch' = Tail(batch)

\* While the loop runs, the calls logged are those of the one event handled last
FrameOneAtATime == (pc = "events" /\ ev.type \in EventTypes) => log = CallsFor

\* update and draw are called by the frame pass only, once each
FrameUpdateOnce ==
    (CallsOf("update") # {} \/ CallsOf("draw") # {}) =>
        /\ ev.type = "frame"
        /\ log = UpdateDraw(pre.current)

\* C11: within a frame the events are handled strictly in the order they
\* were queued, the callbacks of one event are complete before the next
\* event is looked at, and the root's update and draw run exactly once per
\* frame, only after every event drained for the frame has been handled.
C11_FrameOrder ==
    /\ [](FrameOneAtATime /\ FrameUpdateOnce)
    /\ [][Drain => (batch' = queue /\ queue' = <<>>)]_vars
    /\ [][LoopStep => TakesOldest]_vars
    /\ [][FramePass => (pc' \in {"tick", "crashed"} /\ ev'.type = "frame"
                        /\ (pc' = "tick" => log' = UpdateDraw(view_current)))]_vars

\* A press was handled, with its callbacks, and a different event of the
\* same frame is next
C11_Witness ==
    /\ pc = "events" /\ batch # <<>>
    /\ ev.type = "MOUSEBUTTONDOWN" /\ Len(log) >= 2
    /\ Head(batch) # ev

\* C12: when a callback the dispatcher invokes raises, the failure leaves
\* run(): the calls of the event stop at the raising one, the later events
\* of the frame stay undelivered, update and draw do not run, and nothing
\* is caught or retried (no step follows).
C12_RaisePropagates ==
    /\ [](raised = "Exception" =>
            /\ pc = "crashed"
            /\ ev.type \in EventTypes
            /\ log # <<>> /\ Len(log) <= Len(CallsFor)
            /\ log = SubSeq(CallsFor, 1, Len(log))
            /\ CallsOf("update") = {} /\ CallsOf("draw") = {})
    /\ [][raised' = "Exception" => TakesOldest]_vars
    /\ [][pc # "crashed"]_vars

\* The first of two callbacks of an event raised with a later event of the
\* frame still in the batch
C12_Witness ==
    /\ raised = "Exception"
    /\ batch # <<>>
    /\ Len(log) < Len(CallsFor)

\* C13: a quit event ends the dispatch loop: the events queued after it
\* are not delivered, no update/draw pass runs and no frame is started.
C13_QuitTerminates ==
    /\ []((ev.type = "QUIT" \/ pc = "exited") =>
            /\ ev.type = "QUIT" /\ pc = "exited"
            /\ log = <<>>)
    /\ [][pc' = "exited" => TakesOldest]_vars
    /\ [][pc # "exited"]_vars

\* A quit event was reached with another event queued after it
C13_Witness ==
    /\ pc = "exited"
    /\ batch # <<>>
    /\ Head(batch).type # "QUIT"

\* C18: run() started with an empty view stack fails at once with an
\* assertion error, before any event is drained and before any callback,
\* update or draw is invoked; nothing follows.
C18_RunNeedsRoot ==
    /\ []((ev.type = "run" /\ stack = <<>>) =>
            /\ pc = "crashed" /\ raised = "AssertionError"
            /\ log = <<>>
            /\ queue = <<>> /\ batch = <<>>)
    /\ [][~(ev.type = "run" /\ stack = <<>>)]_vars

\* run() was called with no scene pushed
C18_Witness == ev.type = "run" /\ stack = <<>> /\ pre.current = None

\* C20: the pressed-view record does not outlive the focus of the pressed
\* view: after an event has been fully processed, if a view is recorded as
\* pressed then the focus is still on that view (the dispatcher has neither
\* cleared the focus nor moved it to another view since the press).
C20_PressedKeepsFocus ==
    (pc \in {"events", "tick"} /\ raised = None /\ down_in_view # None) =>
        focus_view = down_in_view

\* ---- Lookups ----

\* A lookup was made; the state it resolves
Looking == call.n >= 1 /\ call.fn \in {"get_dict_for_class", "get_dict", "get_value"}
LState == IF call.state = None THEN "normal" ELSE call.state

\* The class and its first parents, up to View
UpFrom(c) ==
    CASE c = "Button"  -> {"Button", "Control", "View"}
      [] c = "Control" -> {"Control", "View"}
      [] c = "View"    -> {"View"}

\* The classes from the queried class up to the class named base_name
LChain == {c \in UpFrom(call.class_name) : call.base_name \in UpFrom(c)}

\* Key k had a value in the cell (c, s) when the lookup was made
WasSet(c, s, k) ==
    /\ c \in DOMAIN call.before
    /\ s \in DOMAIN call.before[c]
    /\ k \in DOMAIN call.before[c][s]

\* C14: a style query for a class whose first-parent chain never reaches a
\* class named base_name fails with an error and returns no map; a query
\* whose chain reaches it returns a map; the walk ends either way.
C14_UnreachedBaseFails ==
    Looking =>
        /\ (call.base_name \notin UpFrom(call.class_name)) <=> (call.exc # None)
        /\ call.exc # None => (call.style = EmptyDict /\ call.value = None)

\* View was queried with base_name Control, which its chain never reaches
C14_Witness ==
    /\ Looking
    /\ call.class_name = "View" /\ call.base_name = "Control"
    /\ call.exc = "IndexError"
    /\ Entries(call.before) # {}

C16_AbsentUnlessOnChain ==
    (Looking /\ call.base_name \in UpFrom(call.class_name)) =>
        /\ call.exc = None
        /\ \A k \in StyleKeys :
              k \in DOMAIN call.style =>
                 \E c \in LChain : WasSet(c, LState, k) \/ WasSet(c, "normal", k)
        /\ (call.fn = "get_value" /\ call.attr \notin DOMAIN call.style) =>
              call.value = DefaultValue

\* get_value was asked for a key set only off the chain (on Button, for a
\* query of Control) and only in another state on the chain
C16_Witness ==
    /\ Looking /\ call.exc = None
    /\ call.fn = "get_value" /\ call.class_name = "Control" /\ LState = "focused"
    /\ WasSet("Button", "focused", call.attr)
    /\ WasSet("Control", "selected", call.attr)
    /\ call.value = DefaultValue

\* ---- Batch sets ----

\* The (class, state, key) -> value content of a table
Content(styles) == [e \in Entries(styles) |-> styles[e[1]][e[2]][e[3]]]

\* The (class, state, key, value) tuples of the batch call, in listed order
RECURSIVE FlatTheme(_, _)
FlatTheme(params, i) ==
    IF i > Len(params) THEN <<>>
    ELSE [j \in 1..Len(params[i][2]) |-> <<params[i][1]>> \o params[i][2][j]]
         \o FlatTheme(params, i + 1)

Listed ==
    IF call.fn = "set_for_class"
    THEN [j \in 1..Len(call.params) |-> <<call.class_name>> \o call.params[j]]
    ELSE FlatTheme(call.params, 1)

\* Theme.set called once per listed tuple, in the listed order
RECURSIVE SetEach(_, _, _)
SetEach(styles, list, i) ==
    IF i > Len(list) THEN styles
    ELSE SetEach(ThemeSetResult(styles, list[i][1], list[i][2], list[i][3], list[i][4]),
                 list, i + 1)

\* The listed tuples that name the cell key e
Naming(e) == {j \in 1..Len(Listed) : <<Listed[j][1], Listed[j][2], Listed[j][3]>> = e}

Last(S) == CHOOSE j \in S : \A i \in S : i <= j

\* C17: set_for_class and set_for_theme leave the table with the content
\* that one set call per tuple, in the listed order, leaves: a cell key
\* named by the batch holds the value of the last tuple naming it, and
\* every other key of every cell is as it was.
C17_BatchAsSets ==
    call.fn \in {"set_for_class", "set_for_theme"} =>
        /\ Content(_styles) = Content(SetEach(call.before, Listed, 1))
        /\ \A e \in BatchClasses \X StateNames \X StyleKeys :
              IF Naming(e) # {}
              THEN e \in Entries(_styles)
                   /\ Content(_styles)[e] = Listed[Last(Naming(e))][4]
              ELSE /\ e \in Entries(_styles) <=> e \in Entries(call.before)
                   /\ e \in Entries(_styles) =>
                         Content(_styles)[e] = Content(call.before)[e]

\* set_for_class was given the same (state, key) twice with different
\* values, in an order the sort by state changes, over a table that held
\* another key of the class
C17_Witness ==
    /\ call.fn = "set_for_class" /\ Len(call.params) = 3
    /\ call.params[1][1] = "normal" /\ call.params[3][1] = "normal"
    /\ call.params[2][1] = "focused"
    /\ call.params[1][2] = call.params[3][2]
    /\ call.params[1][3] # call.params[3][3]
    /\ \E k \in StyleKeys : k # call.params[1][2]
                             /\ <<call.class_name, "normal", k>> \in Entries(call.before)

\* set_for_theme was given the same class twice, setting the same key
C17_WitnessTheme ==
    /\ call.fn = "set_for_theme" /\ Len(call.params) = 2
    /\ call.params[1][1] = call.params[2][1]
    /\ Len(call.params[1][2]) = 2 /\ Len(call.params[2][2]) = 2
    /\ call.params[1][2][1] = call.params[2][2][2]
    /\ call.params[1][2][1][3] # call.params[2][2][1][3]
    /\ call.params[1][2][1][1] = call.params[2][2][1][1]

\* ---- The included themes ----

\* C19: after theme.init() the included named themes are usable:
\* light_theme holds the light theme's entries, so once use_theme(light_theme)
\* has made it current, resolving AlertView in the current theme yields the
\* title_label.* entries of the light theme and not an empty map.
C19_LightThemeUsable ==
    (ev.type = "use_theme" /\ theme_current = "light_theme") =>
        LET style == get_dict_for_class(CurrentStyles, "AlertView",
                                        None, "AlertView").style
            light == init_light_theme["AlertView"]["normal"]
        IN  \A k \in {"title_label.background_color", "title_label.text_color"} :
                k \in DOMAIN style /\ style[k] = light[k]

\* ---- Gestures ----

\* C21: every pointer-up ends the gesture: after it no view is recorded as
\* pressed, whether or not the hit-test found a view, so a pointer-move
\* handled with no view pressed is a motion on the root and never a drag;
\* when the hit-test finds no view, no release and no blur is delivered and
\* the focus is unchanged.
C21_ReleaseEndsGesture ==
    /\ [](Handled("MOUSEBUTTONUP") =>
            /\ down_in_view = None
            /\ ViewAt(pre.current, pointer) = None =>
                  (log = <<>> /\ focus_view = pre.focus))
    /\ []((Handled("MOUSEMOTION") /\ pre.down = None) =>
            /\ log = <<Call(pre.current, "mouse_motion", pointer, 0, NoRel, None)>>
            /\ CallsOf("mouse_drag") = {})
    /\ [][(Handled("MOUSEBUTTONUP") /\ pc = "events" /\ pc' = "events"
             /\ ev'.type = "MOUSEMOTION" /\ raised' = None) =>
               (log' = <<Call(view_current, "mouse_motion", pointer, 0, NoRel, None)>>)]_vars

\* The draggable view a was pressed and the button was released outside of
\* the window, where the hit-test finds no view
C21_Witness ==
    /\ Handled("MOUSEBUTTONUP")
    /\ pre.down = "a" /\ pre.focus = "a"
    /\ pointer = <<3, 0>>
    /\ down_in_view = None /\ focus_view = "a" /\ log = <<>>

\* C22: a pointer-down with no view pressed whose hit-test finds no view, or
\* finds the scene itself, clears the focus (the view that had it is blurred
\* once and no view is focused afterwards), delivers no press to any view,
\* the scene included, and leaves no view pressed.
C22_PressOnNothingClearsFocus ==
    (/\ Handled("MOUSEBUTTONDOWN")
     /\ pre.down = None
     /\ ViewAt(pre.current, pointer) \in Scenes \cup {None}) =>
        /\ focus_view = None
        /\ down_in_view = None
        /\ CallsOf("mouse_down") = {} /\ CallsOf("focused") = {}
        /\ log = IF pre.focus = None THEN <<>>
                 ELSE <<Call(pre.focus, "blurred", NoPoint, 0, NoRel, None)>>
        /\ pre.focus \notin has_focus

\* After a click had left view a focused, the bare scene was pressed
C22_Witness ==
    /\ Handled("MOUSEBUTTONDOWN") /\ pre.down = None
    /\ pre.focus = "a" /\ pre.current = "scene1" /\ pointer = <<0, 0>>
    /\ focus_view = None /\ has_focus = {}

\* With view d focused, the button was pressed outside of the window
C22_WitnessOutside ==
    /\ Handled("MOUSEBUTTONDOWN") /\ pre.down = None
    /\ pre.focus = "d" /\ pointer = <<3, 0>>
    /\ focus_view = None

\* The release of a click: view pre.down is pressed and focused, and the
\* button comes up on it
ClickReleased ==
    (/\ Handled("MOUSEBUTTONUP")
     /\ pre.down \in Views /\ pre.focus = pre.down
     /\ ViewAt(pre.current, pointer) = pre.down) =>
        /\ log = <<Call(pre.down, "mouse_up", LocalPoint(pre.down, pointer),
                        ev.button, NoRel, None)>>
        /\ CallsOf("blurred") = {}
        /\ focus_view = pre.down
        /\ has_focus = {pre.down}
        /\ down_in_view = None

\* C23: click: with view A pressed and focused (a press on A, then only
\* pointer-moves), a pointer-up whose hit-test finds A delivers the release
\* to A, at the pointer in A's local coordinates, delivers no blur, and
\* leaves A focused.  The press leaves A pressed and focused, and a
\* pointer-move while A is pressed changes neither.
C23_Click ==
    /\ (Handled("MOUSEBUTTONDOWN") /\ ViewAt(pre.current, pointer) \in Views) =>
          /\ down_in_view = ViewAt(pre.current, pointer)
          /\ focus_view = down_in_view
    /\ (Handled("MOUSEMOTION") /\ pre.down # None) =>
          /\ down_in_view = pre.down
          /\ focus_view = pre.focus
    /\ ClickReleased

\* View d was pressed and the button came up on d, at its second point
C23_Witness ==
    /\ Handled("MOUSEBUTTONUP")
    /\ pre.down = "d" /\ pre.focus = "d" /\ pointer = <<1, 0>>
    /\ focus_view = "d" /\ has_focus = {"d"}
    /\ \E i \in CallsOf("mouse_up") : log[i].to = "d" /\ log[i].pt = <<1, 0>>

\* ---- Position of a queued pointer event ----

\* C24: each pointer-down and pointer-up is hit-tested and routed at the
\* position the event carries, not at the pointer position current when
\* the queue is drained.
C24_RoutedByOwnPosition ==
    (Handled("MOUSEBUTTONDOWN") \/ Handled("MOUSEBUTTONUP")) =>
        LET own == Handle(ev, ev.pos, pre.current, pre.focus, pre.down) IN
        /\ log = own.calls
        /\ focus_view = own.focus
        /\ down_in_view = own.down
====
